---- MODULE Spec2Model ----
(***************************************************************************)
(* A model of the MCP protocol client of src/main.py: the endpoint         *)
(* resolver (test_n8n_connectivity), the transport (send_mcp_request and   *)
(* parse_sse_response), the session state machine (initialize and          *)
(* fetch_available_tools) and the tool call dispatcher (call_tool).        *)
(*                                                                         *)
(* The client runs on one asyncio event loop.  An action of the model is   *)
(* the code one task executes between two suspension points: the probe     *)
(* GET, the handshake pause, the POST of one attempt, the backoff sleep    *)
(* and the wait for the initialization lock.  Everything a task does       *)
(* between two of these is one atomic step, as on the event loop.          *)
(***************************************************************************)
EXTENDS Integers, Sequences, FiniteSets, TLC

(***************************************************************************)
(* Bounds of the model.                                                    *)
(***************************************************************************)
\* Operations (calls of the client's methods) started in one behaviour.
MaxOps == 2

\* The tasks that call the client concurrently (handlers of inbound messages).
Tasks == {"t1", "t2"}

(***************************************************************************)
(* Program constants.                                                      *)
(***************************************************************************)
DEFAULT_PORT == 5678
MAX_RETRIES == 3
DOCKER_HOSTS ==
    << "host.docker.internal", "localhost", "127.0.0.1", "172.17.0.1", "n8n" >>

\* build_url(host, DEFAULT_PORT): "http://{host}:{port}" for the candidates.
build_url(host) ==
    CASE host = "host.docker.internal" -> "http://host.docker.internal:5678"
      [] host = "localhost"            -> "http://localhost:5678"
      [] host = "127.0.0.1"            -> "http://127.0.0.1:5678"
      [] host = "172.17.0.1"           -> "http://172.17.0.1:5678"
      [] host = "n8n"                  -> "http://n8n:5678"

NoAddress == "No n8n instance accessible"

(***************************************************************************)
(* Python values.  None is NoneStr where the code holds a string or None   *)
(* (base_url, session_id) and NoneObj where it holds a decoded JSON value. *)
(* A JSON object is a record, a JSON array a sequence; the empty object    *)
(* and the empty array are both the empty function.                        *)
(***************************************************************************)
NoneStr == "<None>"
NoneObj == [py_none |-> TRUE]
EmptyObj == << >>
JSONDecodeError == [py_raise |-> "JSONDecodeError"]

\* Python truthiness of a decoded JSON value: None and empty containers are falsy.
Truthy(v) == v # NoneObj /\ DOMAIN v # {}

\* key in obj
HasKey(obj, key) == key \in DOMAIN obj

\* obj.get(key, default)
Get(obj, key, default) == IF key \in DOMAIN obj THEN obj[key] ELSE default

(***************************************************************************)
(* The JSON values a server answers with in this model.                    *)
(***************************************************************************)
CapA == [tools |-> [listChanged |-> TRUE]]
CapB == [tools |-> [listChanged |-> FALSE], logging |-> EmptyObj]
ToolA == [name |-> "Send_Email", description |-> "Send a mail"]
ToolB == [name |-> "Get_Sheet", description |-> "Read a sheet"]
ErrObj == [code |-> 7, message |-> "boom"]

PInitA == [result |-> [capabilities |-> CapA, serverInfo |-> [name |-> "n8n"]]]
PInitB == [result |-> [capabilities |-> CapB]]
PResOk == [result |-> [ok |-> TRUE]]
PToolsA == [result |-> [tools |-> << ToolA >>]]
PToolsAB == [result |-> [tools |-> << ToolA, ToolB >>]]
PToolsNone == [result |-> [tools |-> << >>]]
PErr == [error |-> ErrObj]
PErrBare == [error |-> EmptyObj]
PErrRes == [error |-> ErrObj, result |-> [ok |-> TRUE]]
PResNull == [result |-> NoneObj]
PErrNull == [error |-> NoneObj]
POther == [jsonrpc |-> "2.0"]
Accepted == [status |-> "accepted"]

\* json.loads on the texts of the model: text, decoded value.
JsonTable ==
    << << "{\"result\":{\"capabilities\":{\"tools\":{\"listChanged\":true}},\"serverInfo\":{\"name\":\"n8n\"}}}", PInitA >>,
       << "{\"result\":{\"capabilities\":{\"tools\":{\"listChanged\":false},\"logging\":{}}}}", PInitB >>,
       << "{\"result\":{\"ok\":true}}", PResOk >>,
       << "{\"result\":{\"tools\":[{\"name\":\"Send_Email\",\"description\":\"Send a mail\"}]}}", PToolsA >>,
       << "{\"result\":{\"tools\":[{\"name\":\"Send_Email\",\"description\":\"Send a mail\"},{\"name\":\"Get_Sheet\",\"description\":\"Read a sheet\"}]}}", PToolsAB >>,
       << "{\"result\":{\"tools\":[]}}", PToolsNone >>,
       << "{\"error\":{\"code\":7,\"message\":\"boom\"}}", PErr >>,
       << "{\"error\":{}}", PErrBare >>,
       << "{\"error\":{\"code\":7,\"message\":\"boom\"},\"result\":{\"ok\":true}}", PErrRes >>,
       << "{\"jsonrpc\":\"2.0\"}", POther >>,
       << "{\"status\":\"accepted\"}", Accepted >>,
       << "{\"result\":null}", PResNull >>,
       << "{\"error\":null}", PErrNull >>,
       << "{}", EmptyObj >>,
       << "null", NoneObj >> >>

JsonTexts == { JsonTable[i][1] : i \in DOMAIN JsonTable }

\* Texts that are not JSON.
BadTexts == { "{\"result\":", "<html>", "" }

\* json.loads(text): the decoded value, or JSONDecodeError raised.
json_loads(text) ==
    IF text \in JsonTexts
    THEN JsonTable[CHOOSE i \in DOMAIN JsonTable : JsonTable[i][1] = text][2]
    ELSE JSONDecodeError

(***************************************************************************)
(* A response body is its text split in lines; a line is the prefix the    *)
(* code tests for (line.startswith('data: ')) and the rest (line[6:]).     *)
(***************************************************************************)
Line(prefix, rest) == [prefix |-> prefix, rest |-> rest]
PlainBody(text) == << Line("", text) >>
SseBody(text) == << Line("event: ", "message"), Line("data: ", text) >>
SsePadded(text) == << Line("data: ", ""), Line("data: ", "[DONE]"), Line("data: ", text) >>

\* parse_sse_response: the first data line whose payload is neither empty nor
\* the end marker is decoded; a decode failure is caught and gives None.
RECURSIVE parse_sse_lines(_)
parse_sse_lines(lines) ==
    IF lines = << >> THEN NoneObj
    ELSE LET line == Head(lines)
             data_part == line.rest
         IN IF line.prefix = "data: " /\ data_part # "" /\ data_part # "[DONE]"
            THEN LET v == json_loads(data_part)
                 IN IF v = JSONDecodeError THEN NoneObj ELSE v
            ELSE parse_sse_lines(Tail(lines))

parse_sse_response(response_text) == parse_sse_lines(response_text)

\* json.loads(response_text) of a whole body.
json_loads_body(response_text) ==
    IF Len(response_text) = 1 /\ response_text[1].prefix = ""
    THEN json_loads(response_text[1].rest)
    ELSE JSONDecodeError

\* "text/event-stream" in response.headers.get("Content-Type", "")
IsEventStream(ctype) == ctype \in { "text/event-stream", "text/event-stream; charset=utf-8" }

\* isinstance(v, dict): every JSON value of the model is an object but null.
IsDict(v) == v # NoneObj

\* The built-in tool list of fetch_available_tools.
PredefinedTools ==
    << [name |-> "Find_Emails", description |-> "Find and retrieve emails from Gmail"],
       [name |-> "Send_Email", description |-> "Send an email via Gmail"],
       [name |-> "Create_an_event", description |-> "Create a calendar event in Google Calendar"],
       [name |-> "Find_single_event", description |-> "Find a specific calendar event"],
       [name |-> "Find_multiple_events", description |-> "Find multiple calendar events"],
       [name |-> "Update_event", description |-> "Update an existing calendar event"] >>

(***************************************************************************)
(* What the network answers.                                               *)
(***************************************************************************)
\* Mcp-Session-Id header values of a response; NoneStr: the header is absent.
SessionHeaders == { NoneStr, "s1", "s2" }

OkBodies ==
    { << ct, PlainBody(x) >> : ct \in { "application/json", "text/event-stream" },
                               x \in JsonTexts \cup BadTexts }
    \cup { << ct, SseBody(x) >> : ct \in { "application/json", "text/event-stream; charset=utf-8" },
                                  x \in JsonTexts \cup { "<html>" } }
    \cup { << "text/event-stream", b >> :
             b \in { SsePadded("{\"result\":{\"ok\":true}}"),
                     << Line("data: ", "[DONE]") >>,
                     << Line("data: ", "<html>"), Line("data: ", "{\"result\":{\"ok\":true}}") >> } }

Response(status, sid, ctype, body) ==
    [status |-> status, sid |-> sid, ctype |-> ctype, body |-> body]

Responses ==
    { Response(st, h, "text/plain", PlainBody("")) :
        st \in { 202, 302, 400, 401, 404, 500, 503 }, h \in SessionHeaders }
    \cup { Response(200, h, b[1], b[2]) : h \in SessionHeaders, b \in OkBodies }

\* A POST that raises: asyncio.TimeoutError, or another exception (aiohttp.ClientError).
PostFailures == { "timeout", "error" }

\* What a probe GET gives: a status, or an exception.
ProbeOutcomes ==
    { [raised |-> FALSE, status |-> st] : st \in { 200, 404, 503 } }
    \cup { [raised |-> TRUE, status |-> 0] }


(***************************************************************************)
(* The directive parser.  A text is the sequence of its pieces: the        *)
(* markers, the braces, blanks, line breaks and the words between them,    *)
(* so that "marker in text", split, strip and the scan over the braces     *)
(* work on pieces as the code works on characters.  A name read from a     *)
(* text is the sequence of its pieces; None is NoName.                     *)
(***************************************************************************)
NoName == << NoneStr >>

\* marker in text
Contains(text, marker) == \E i \in DOMAIN text : text[i] = marker

\* text.find(piece): the first position of piece, 0 when there is none.
find(text, piece) ==
    IF Contains(text, piece)
    THEN CHOOSE i \in DOMAIN text :
             text[i] = piece /\ \A j \in 1..(i - 1) : text[j] # piece
    ELSE 0

\* text.split(marker, 1)[1], for a text that contains marker
after_marker(text, marker) == SubSeq(text, find(text, marker) + 1, Len(text))

\* text.split("\n", 1)[0]
first_line(text) ==
    IF Contains(text, "\n") THEN SubSeq(text, 1, find(text, "\n") - 1) ELSE text

IsSpace(piece) == piece \in { " ", "\n" }

RECURSIVE lstrip(_)
lstrip(text) ==
    IF text # << >> /\ IsSpace(Head(text)) THEN lstrip(Tail(text)) ELSE text

RECURSIVE rstrip(_)
rstrip(text) ==
    IF text # << >> /\ IsSpace(text[Len(text)])
    THEN rstrip(SubSeq(text, 1, Len(text) - 1))
    ELSE text

\* text.strip()
strip(text) == rstrip(lstrip(text))

\* The argument objects of the model, as written and as json.loads decodes
\* them.  A string value that holds a brace is three pieces: up to the
\* brace, the brace, and the rest.
ArgsTable ==
    << << << "{", "\"To\":\"a@b.com\"", ",", "\"Subject\":\"Hi\"", "}" >>,
          [To |-> "a@b.com", Subject |-> "Hi"] >>,
       << << "{", "}" >>, EmptyObj >>,
       << << "{", "\"To\":\"a@b.com\"", ",", "\"Opts\":", "{", "\"n\":1", "}", "}" >>,
          [To |-> "a@b.com", Opts |-> [n |-> 1]] >>,
       << << "{", "\"Opts\":", "{", "}", ",", "\"n\":1", "}" >>,
          [Opts |-> EmptyObj, n |-> 1] >>,
       << << "{", "\"Subject\":", "\"a", "}", "b\"", "}" >>,
          [Subject |-> "a}b"] >>,
       << << "{", "\"Subject\":", "\"a", "{", "b\"", "}" >>,
          [Subject |-> "a{b"] >>,
       << << "{", "\"Subject\":", "\"", "{", "x", "}", "\"", "}" >>,
          [Subject |-> "{x}"] >> >>

ArgsObjects == { ArgsTable[i][1] : i \in DOMAIN ArgsTable }

\* json.loads(args_json): the decoded object, or JSONDecodeError raised.
json_loads_args(args_json) ==
    IF args_json \in ArgsObjects
    THEN ArgsTable[CHOOSE i \in DOMAIN ArgsTable : ArgsTable[i][1] = args_json][2]
    ELSE JSONDecodeError

\* The for loop of lines 517-524 from position i on with brace_count count:
\* the position where the count comes back to 0, or 0 when it never does
\* (end_idx = -1).
RECURSIVE brace_scan(_, _, _)
brace_scan(args_text, i, count) ==
    IF i > Len(args_text) THEN 0
    ELSE LET brace_count ==
                 CASE args_text[i] = "{" -> count + 1
                   [] args_text[i] = "}" -> count - 1
                   [] OTHER -> count
         IN  IF args_text[i] = "}" /\ brace_count = 0 THEN i
             ELSE brace_scan(args_text, i + 1, brace_count)

\* Lines 509-531: the arguments read from the text.
extract_arguments(text) ==
    IF ~Contains(text, "ARGUMENTS:") THEN EmptyObj
    ELSE LET args_text == strip(after_marker(text, "ARGUMENTS:"))
             start_idx == find(args_text, "{")
             end_idx == IF start_idx = 0 THEN 0 ELSE brace_scan(args_text, start_idx, 0)
         IN  IF start_idx = 0 \/ end_idx = 0 THEN EmptyObj
             ELSE LET arguments == json_loads_args(SubSeq(args_text, start_idx, end_idx))
                  IN  IF arguments = JSONDecodeError THEN EmptyObj ELSE arguments

\* Lines 503-506: the tool name read from the text.
extract_tool_name(text) ==
    IF ~Contains(text, "TOOL:") THEN NoName
    ELSE strip(first_line(strip(after_marker(text, "TOOL:"))))

\* A parser that drops the directive when it reads no arguments, which C12
\* excludes.
extract_tool_call_strict(text) ==
    IF ~Contains(text, "ACTION:") \/ ~Contains(text, "call_tool")
       \/ extract_arguments(text) = EmptyObj
    THEN [tool_name |-> NoName, arguments |-> EmptyObj]
    ELSE [tool_name |-> extract_tool_name(text), arguments |-> extract_arguments(text)]

\* extract_tool_call(text)
extract_tool_call(text) ==
    IF ~Contains(text, "ACTION:") \/ ~Contains(text, "call_tool")
    THEN [tool_name |-> NoName, arguments |-> EmptyObj]
    ELSE [tool_name |-> extract_tool_name(text), arguments |-> extract_arguments(text)]

\* classify_query gives one of these.
QueryTypes == { "n8n_workflows", "general" }

\* handle_message, line 630: the tool is called.
dispatches(tool_name, query_type) ==
    tool_name # NoName /\ tool_name # << >> /\ query_type = "n8n_workflows"

(***************************************************************************)
(* The texts a language model answers with in this model: an opening, the  *)
(* action line, the tool line and the arguments in either order, and an    *)
(* ending.  made tells how a text was put together.                        *)
(***************************************************************************)
Openings == { << >>, << "Sure.", "\n" >> }

ActionLines ==
    { << "ACTION:", " ", "call_tool", "\n" >>,
      << "ACTION:", " ", "answer", "\n" >>,
      << "I", " ", "call_tool", "\n" >>,
      << >> }

\* A tool line and the name written on it.
ToolLines ==
    { [line |-> << "TOOL:", " ", "Send_Email", "\n" >>, name |-> << "Send_Email" >>],
      [line |-> << "TOOL:", "Find_Emails", " ", "\n" >>, name |-> << "Find_Emails" >>],
      [line |-> << "TOOL:", " ", "Create", " ", "event", "\n" >>,
       name |-> << "Create", " ", "event" >>],
      [line |-> << >>, name |-> NoName] }

\* Arguments that are no JSON object: the braces never balance, or the
\* balanced span is no JSON.
MalformedObjects ==
    { << "{", "\"To\":\"a@b.com\"" >>,
      << "{", "\"Opts\":", "{", "\"n\":1", "}" >>,
      << "{", "To", "}" >> }

\* What follows the ARGUMENTS: marker: an object of ArgsTable, alone or
\* followed by more text, an object left open, a balanced span that is no
\* JSON, or no brace at all.
ArgumentParts ==
    { [marker |-> TRUE, written |-> obj, rest |-> r] :
          obj \in ArgsObjects, r \in { << "\n" >>, << " ", "ok", "\n" >> } }
    \cup { [marker |-> TRUE, written |-> w, rest |-> << "\n" >>] :
               w \in MalformedObjects \cup { << "none" >>, << >> } }
    \cup { [marker |-> FALSE, written |-> << >>, rest |-> << >>] }

Endings == { << >>, << "Done", "\n" >> }

ArgumentText(a) ==
    IF a.marker THEN << "ARGUMENTS:", " " >> \o a.written \o a.rest ELSE << >>

Answers ==
    { [text |-> o \o act \o tl.line \o ArgumentText(a) \o e,
       name |-> tl.name, marker |-> a.marker, written |-> a.written] :
          o \in Openings, act \in ActionLines, tl \in ToolLines,
          a \in ArgumentParts, e \in Endings }
    \cup
    { [text |-> act \o ArgumentText(a) \o tl.line,
       name |-> tl.name, marker |-> a.marker, written |-> a.written] :
          act \in ActionLines, tl \in ToolLines, a \in ArgumentParts }

\* No message is being handled.
NoDirective == [tool_name |-> NoName, arguments |-> EmptyObj]

NoMessage ==
    [pc |-> "idle", llm_response |-> << >>,
     made |-> [name |-> NoName, marker |-> FALSE, written |-> << >>],
     query_type |-> "general", directive |-> NoDirective, called |-> FALSE]

(***************************************************************************)
(* The state: the fields of the one N8nMCPClient (mcp_client), its         *)
(* asyncio.Lock, and for every task the operation it runs, where it is     *)
(* suspended and its local variables.                                      *)
(***************************************************************************)
VARIABLES
    base_url,             \* self.base_url
    available_tools,      \* self.available_tools
    initialized,          \* self.initialized
    server_capabilities,  \* self.server_capabilities
    session_id,           \* self.session_id
    lock_owner,           \* the task holding self._session_lock, or NoTask
    lock_waiters,         \* the tasks waiting for it, first come first
    task,                 \* per task: operation, position, locals, results
    msg,                  \* handle_message from the model's answer on: the answer,
                          \* how it was made, the query type, the parsed directive
    hist                  \* history: operations started, initialize() bodies entered,
                          \* an initialize() returned, all initialize() calls were
                          \* made before any returned, a 404 ended a session and
                          \* no initialize() body was entered since, a 404 was
                          \* answered and no initialize request returned a result
                          \* since, the uuid4() calls made

client_vars == << base_url, available_tools, initialized, server_capabilities, session_id,
                  lock_owner, lock_waiters, task, hist >>

vars == << client_vars, msg >>

NoTask == "-"

\* A request without the key id.
NoId == [prefix |-> "", uuid |-> 0]

\* The methods whose request is built with an id, and the prefix of the id.
IdPrefix(method) ==
    CASE method = "initialize" -> "init-"
      [] method = "tools/list" -> "tools-"
      [] method = "tools/call" -> "tool-"
      [] OTHER -> ""

\* uuid.uuid4(): a value no earlier call returned, the n-th call returns n.
uuid4(h) == h.uuids + 1

\* The id of the request built for method: f"init-{uuid.uuid4()}" and the
\* like; the notification is built without id.
request_id_for(h, method) ==
    IF IdPrefix(method) = "" THEN NoId
    ELSE [prefix |-> IdPrefix(method), uuid |-> uuid4(h)]

\* No send_mcp_request call has returned yet.
NoSend ==
    [method |-> "", attempts |-> 0, slept |-> 0, failed |-> 0, outcome |-> "none",
     payload |-> NoneObj, ret |-> NoneObj, sid |-> NoneStr, init |-> FALSE,
     tools |-> << >>]

NoProbe == [ok |-> FALSE, addr |-> "", probed |-> 0, answered |-> 0]

\* A task that runs nothing.
IdleTask ==
    [op |-> "none",          \* the method of the client the task called
     pc |-> "idle",          \* idle, lock, probe, pause, post, backoff, returned
     host |-> 0,             \* test_n8n_connectivity: index of the host probed
     method |-> "",          \* send_mcp_request: method of the request
     attempt |-> 0,          \* send_mcp_request: attempt of the for loop
     sent_sid |-> NoneStr,   \* send_mcp_request: Mcp-Session-Id header of the attempt
     request_id |-> NoId,    \* send_mcp_request: the id of the request it was given
     post_id |-> NoId,       \* send_mcp_request: the id in the body of the attempt
     delay |-> 0,            \* the asyncio.sleep in progress
     slept |-> 0,            \* backoff slept so far in this send_mcp_request call
     failed |-> 0,           \* attempts of this call that ended in 5xx or an exception
     prev |-> "none",        \* how the previous attempt of this call ended
     got_sid |-> NoneStr,    \* Mcp-Session-Id header of that attempt's response
     want |-> NoneObj,       \* the decoded body of that attempt's 200 response
     probed |-> 0,           \* probes made by this test_n8n_connectivity call
     answered |-> 0,         \* index of the probe that answered 200, 0 if none
     probe_ret |-> NoProbe,  \* what the last test_n8n_connectivity call returned
     init_ret |-> "none",    \* what the last initialize() returned: none, True, False
     tool_ret |-> << >>,     \* what call_tool returned
     last |-> NoSend,        \* the send_mcp_request call, once it has returned
     steps |-> {},           \* handshake steps this operation performed
     fetched |-> "none",     \* its tools/list call returned: none, result, nothing
     saw_init |-> FALSE,     \* self.initialized when the operation was called
     saw_expired |-> FALSE]  \* hist.expired when the operation was called

\* N8nMCPClient.__init__
FreshClient ==
    /\ base_url = NoneStr
    /\ available_tools = << >>
    /\ initialized = FALSE
    /\ server_capabilities = EmptyObj
    /\ session_id = NoneStr
    /\ lock_owner = NoTask
    /\ lock_waiters = << >>
    /\ task = [t \in Tasks |-> IdleTask]
    /\ hist = [ops |-> 0, handshakes |-> 0, returned |-> FALSE, simultaneous |-> TRUE,
               expired |-> FALSE, after_404 |-> FALSE, uuids |-> 0]

Init == FreshClient /\ msg = NoMessage

\* The state as one record, so that the code run in one step composes.
State ==
    [base_url |-> base_url, available_tools |-> available_tools,
     initialized |-> initialized, server_capabilities |-> server_capabilities,
     session_id |-> session_id, lock_owner |-> lock_owner,
     lock_waiters |-> lock_waiters, task |-> task, hist |-> hist]

\* The step ends in state s (s is worked out once).
Becomes(s) ==
    \E r \in { s } :
        /\ base_url' = r.base_url
        /\ available_tools' = r.available_tools
        /\ initialized' = r.initialized
        /\ server_capabilities' = r.server_capabilities
        /\ session_id' = r.session_id
        /\ lock_owner' = r.lock_owner
        /\ lock_waiters' = r.lock_waiters
        /\ task' = r.task
        /\ hist' = r.hist
        /\ msg' = msg


(***************************************************************************)
(* Transport: send_mcp_request.                                            *)
(***************************************************************************)
\* attempt < MAX_RETRIES - 1: another attempt remains.
attempts_remain(attempt) == attempt < MAX_RETRIES - 1

\* 2 ** attempt, the backoff slept after the attempt.
backoff(attempt) == 2 ^ attempt

\* What the for loop does with one response: return val, sleep and continue,
\* or fall out of the if chain into the next iteration.
Verdict(do, val, expired) == [do |-> do, val |-> val, expired |-> expired]

\* A transport that reads the header in the 200 branch only, which C17
\* excludes.
adopt_session_on_ok(sid, r) == IF r.sid # NoneStr /\ r.status = 200 THEN r.sid ELSE sid

\* The Mcp-Session-Id header of a response is adopted whatever the status.
adopt_session(sid, r) == IF r.sid # NoneStr THEN r.sid ELSE sid

\* The decoding of a 200 response: the value returned, or nothing returned.
on_ok(r) ==
    IF IsEventStream(r.ctype)
    THEN LET sse_data == parse_sse_response(r.body)
         IN  IF Truthy(sse_data)
             THEN Verdict("return", sse_data, FALSE)
             ELSE Verdict("next", NoneObj, FALSE)
    ELSE LET result == json_loads_body(r.body)
         IN  IF result # JSONDecodeError
             THEN Verdict("return", result, FALSE)
             ELSE Verdict("next", NoneObj, FALSE)

\* The status of a response other than 200, 202, 400 and 404.
on_other_status(status, attempt) ==
    IF status >= 500 /\ attempts_remain(attempt)
    THEN Verdict("sleep", NoneObj, FALSE)
    ELSE Verdict("return", NoneObj, FALSE)

\* A transport that retries a 400 like a server error, which C4 excludes.
on_response_retry_400(r, attempt) ==
    CASE r.status = 200 -> on_ok(r)
      [] r.status = 202 -> Verdict("return", Accepted, FALSE)
      [] r.status = 400 -> on_other_status(500, attempt)
      [] r.status = 404 -> Verdict("return", NoneObj, TRUE)
      [] OTHER -> on_other_status(r.status, attempt)

\* The if chain on response.status.
on_response(r, attempt) ==
    CASE r.status = 200 -> on_ok(r)
      [] r.status = 202 -> Verdict("return", Accepted, FALSE)
      [] r.status = 400 -> Verdict("return", NoneObj, FALSE)
      [] r.status = 404 -> Verdict("return", NoneObj, TRUE)
      [] OTHER -> on_other_status(r.status, attempt)

\* The except clauses: asyncio.TimeoutError and Exception do the same.
on_exception(kind, attempt) ==
    IF attempts_remain(attempt)
    THEN Verdict("sleep", NoneObj, FALSE)
    ELSE Verdict("return", NoneObj, FALSE)

(***************************************************************************)
(* How an attempt ended, for the history kept of a call: the status class  *)
(* of the response, and for a 200 whether its body decodes: as JSON, or as *)
(* an event stream holding a data line (not empty, not the end marker)     *)
(* whose payload is JSON.                                                  *)
(***************************************************************************)
RECURSIVE FirstFrame(_)
FirstFrame(lines) ==
    IF lines = << >> THEN JSONDecodeError
    ELSE IF Head(lines).prefix = "data: " /\ Head(lines).rest \notin { "", "[DONE]" }
         THEN json_loads(Head(lines).rest)
         ELSE FirstFrame(Tail(lines))

Decoded(r) ==
    IF IsEventStream(r.ctype) THEN FirstFrame(r.body) ELSE json_loads_body(r.body)

Outcome(r) ==
    CASE r.status = 200 -> IF Decoded(r) # JSONDecodeError THEN "200" ELSE "200-undecodable"
      [] r.status = 202 -> "202"
      [] r.status = 400 -> "400"
      [] r.status = 404 -> "404"
      [] r.status \in 500..599 -> "5xx"
      [] OTHER -> "other"

Transient == { "5xx", "timeout", "error" }


(***************************************************************************)
(* Dispatcher and session state machine: the pure parts.                   *)
(***************************************************************************)
\* str(code) of an error code.
format_code(code) == CASE code = 7 -> "7" [] OTHER -> "?"

\* json.dumps(value, indent=2, ensure_ascii=False) on the results of the model.
json_dumps(v) ==
    CASE v = NoneObj -> "null"
      [] v = [ok |-> TRUE] -> "{\n  \"ok\": true\n}"
      [] v = [tools |-> << >>] -> "{\n  \"tools\": []\n}"
      [] v = [tools |-> << ToolA >>] ->
           "{\n  \"tools\": [\n    {\n      \"name\": \"Send_Email\",\n      \"description\": \"Send a mail\"\n    }\n  ]\n}"
      [] v = [tools |-> << ToolA, ToolB >>] ->
           "{\n  \"tools\": [\n    {\n      \"name\": \"Send_Email\",\n      \"description\": \"Send a mail\"\n    },\n    {\n      \"name\": \"Get_Sheet\",\n      \"description\": \"Read a sheet\"\n    }\n  ]\n}"
      [] v = PInitA.result ->
           "{\n  \"capabilities\": {\n    \"tools\": {\n      \"listChanged\": true\n    }\n  },\n  \"serverInfo\": {\n    \"name\": \"n8n\"\n  }\n}"
      [] v = PInitB.result ->
           "{\n  \"capabilities\": {\n    \"tools\": {\n      \"listChanged\": false\n    },\n    \"logging\": {}\n  }\n}"

\* The display strings of call_tool; the cross mark of the source is "(x)".
\* A string built from parts is the sequence of its parts.
NotInitializedText == << "(x) MCP client not initialized" >>
NoResponseText == << "(x) No response from MCP server" >>
UnexpectedText == << "(x) Unexpected response format" >>
ErrorText(code, message) == << "(x) MCP error ", code, ": ", message >>
ExceptionText(e) == << "(x) Tool execution error: ", e >>

\* call_tool, lines 375-393: the string for what send_mcp_request returned.
call_tool_result(tool_response) ==
    IF ~Truthy(tool_response) THEN NoResponseText
    ELSE IF HasKey(tool_response, "error")
    THEN LET error == tool_response.error
         IN  IF ~IsDict(error)
             THEN ExceptionText("'NoneType' object has no attribute 'get'")
             ELSE ErrorText(IF HasKey(error, "code") THEN format_code(error.code) ELSE "unknown",
                            Get(error, "message", "Unknown error"))
    ELSE IF HasKey(tool_response, "result")
    THEN << json_dumps(tool_response.result) >>
    ELSE UnexpectedText

\* A fetch that keeps the tools it has when the server lists none, which C8
\* excludes.
tools_after_fetch_keep(tools_response, current) ==
    IF Truthy(tools_response) /\ HasKey(tools_response, "result")
    THEN IF ~IsDict(tools_response.result) THEN current
         ELSE LET tools == Get(tools_response.result, "tools", << >>)
              IN  IF tools # << >> THEN tools ELSE current
    ELSE PredefinedTools

\* fetch_available_tools, lines 317-352: the tool list after the tools/list
\* response; result.get raising (result is no object) is caught and leaves it.
tools_after_fetch(tools_response, current) ==
    IF Truthy(tools_response) /\ HasKey(tools_response, "result")
    THEN IF ~IsDict(tools_response.result) THEN current
         ELSE LET tools == Get(tools_response.result, "tools", << >>)
              IN  IF tools # << >> THEN tools ELSE PredefinedTools
    ELSE PredefinedTools

\* initialize, lines 276-282: the initialize response is accepted; result.get
\* raising is caught by the except clause, which returns False as well.
init_accepted(init_response) ==
    /\ Truthy(init_response)
    /\ HasKey(init_response, "result")
    /\ IsDict(init_response.result)

(***************************************************************************)
(* The code a task runs in one step, as functions from state to state.     *)
(***************************************************************************)
\* The operation of the task returns to its caller.
op_done(s, t) == [s EXCEPT !.task[t].pc = "returned"]

\* A transport that makes a new id for every attempt, which C20 excludes.
begin_attempt_new_id(s, t, n) ==
    [s EXCEPT !.task[t].attempt = n, !.task[t].sent_sid = s.session_id,
              !.task[t].post_id = request_id_for(s.hist, s.task[t].method),
              !.hist.uuids = IF IdPrefix(s.task[t].method) = "" THEN @ ELSE @ + 1,
              !.task[t].pc = "post", !.task[t].delay = 0, !.task[t].want = NoneObj]

\* One iteration of the for loop starts: the headers are built (with the
\* session id of this moment) and the POST of the request is awaited.
begin_attempt(s, t, n) ==
    [s EXCEPT !.task[t].attempt = n, !.task[t].sent_sid = s.session_id,
              !.task[t].post_id = s.task[t].request_id,
              !.task[t].pc = "post", !.task[t].delay = 0, !.task[t].want = NoneObj]

\* A lock that is never given back, which C24 excludes.
release_lock_never(s) == s

\* async with self._session_lock exits.
release_lock(s) ==
    IF s.lock_waiters = << >>
    THEN [s EXCEPT !.lock_owner = NoTask]
    ELSE [s EXCEPT !.lock_owner = Head(s.lock_waiters), !.lock_waiters = Tail(s.lock_waiters)]

RECURSIVE send_mcp_request(_, _, _)

\* call_tool from line 359 on.
call_tool_body(s, t) == send_mcp_request(s, t, "tools/call")

\* A call_tool that goes on whatever its initialize() returned, which C10
\* excludes.
initialize_returns_unchecked(s, t, ok) ==
    LET s1 == [release_lock(s) EXCEPT !.task[t].init_ret = IF ok THEN "True" ELSE "False",
                                      !.hist.returned = TRUE]
    IN  IF s1.task[t].op = "initialize" THEN op_done(s1, t)
        ELSE call_tool_body(s1, t)

\* initialize() returns ok: to handle_message, or into line 356 of call_tool.
initialize_returns(s, t, ok) ==
    LET s1 == [release_lock(s) EXCEPT !.task[t].init_ret = IF ok THEN "True" ELSE "False",
                                      !.hist.returned = TRUE]
    IN  IF s1.task[t].op = "initialize" THEN op_done(s1, t)
        ELSE IF ok THEN call_tool_body(s1, t)
        ELSE op_done([s1 EXCEPT !.task[t].tool_ret = NotInitializedText], t)

\* fetch_available_tools up to its request.
fetch_available_tools(s, t) ==
    send_mcp_request([s EXCEPT !.task[t].steps = @ \cup { "tools/list" }], t, "tools/list")

\* send_mcp_request returned val after n attempts: the caller goes on.
send_returns(s, t, val, n) ==
    LET l == s.task[t]
        s1 == [s EXCEPT !.task[t].last =
                  [method |-> l.method, attempts |-> n, slept |-> l.slept,
                   failed |-> l.failed, outcome |-> l.prev, payload |-> l.want,
                   ret |-> val, sid |-> s.session_id, init |-> s.initialized,
                   tools |-> s.available_tools],
                         !.task[t].request_id = NoId, !.task[t].post_id = NoId]
    IN  CASE l.method = "initialize" ->
               IF init_accepted(val)
               THEN [s1 EXCEPT !.server_capabilities = Get(val.result, "capabilities", EmptyObj),
                               !.hist.after_404 = FALSE,
                               !.task[t].pc = "pause"]
               ELSE initialize_returns(s1, t, FALSE)
          [] l.method = "notifications/initialized" -> fetch_available_tools(s1, t)
          [] l.method = "tools/list" ->
               initialize_returns(
                   [s1 EXCEPT !.available_tools = tools_after_fetch(val, s1.available_tools),
                              !.initialized = TRUE,
                              !.task[t].fetched = IF init_accepted(val) THEN "result"
                                                  ELSE "nothing"], t, TRUE)
          [] l.method = "tools/call" ->
               op_done([s1 EXCEPT !.task[t].tool_ret = call_tool_result(val)], t)
          [] OTHER -> op_done(s1, t)

send_mcp_request(s, t, method) ==
    LET s1 == [s EXCEPT !.task[t].method = method, !.task[t].attempt = 0,
                        !.task[t].request_id = request_id_for(s.hist, method),
                        !.hist.uuids = IF IdPrefix(method) = "" THEN @ ELSE @ + 1,
                        !.task[t].slept = 0, !.task[t].failed = 0,
                        !.task[t].prev = "none", !.task[t].want = NoneObj,
                        !.task[t].last = NoSend]
    IN  IF s1.base_url = NoneStr
        THEN send_returns(s1, t, NoneObj, 0)
        ELSE begin_attempt(s1, t, 0)

\* A loop of one iteration more, which C6 excludes.
loop_continues_once_more(n) == n < MAX_RETRIES

\* for attempt in range(MAX_RETRIES): an iteration follows iteration n.
loop_continues(n) == n + 1 < MAX_RETRIES

\* The for loop goes to its next iteration; when there is none the function
\* ends and returns None.
next_iteration(s, t) ==
    LET n == s.task[t].attempt
    IN  IF loop_continues(n)
        THEN begin_attempt(s, t, n + 1)
        ELSE send_returns(s, t, NoneObj, n + 1)

\* The for loop after one attempt ended with verdict v.
after_attempt(s, t, v) ==
    LET n == s.task[t].attempt
    IN  CASE v.do = "return" -> send_returns(s, t, v.val, n + 1)
          [] v.do = "sleep" ->
               [s EXCEPT !.task[t].pc = "backoff", !.task[t].delay = backoff(n),
                         !.task[t].slept = @ + backoff(n)]
          [] OTHER -> next_iteration(s, t)

\* test_n8n_connectivity starts: the first candidate is probed.
test_n8n_connectivity(s, t) ==
    [s EXCEPT !.task[t].pc = "probe", !.task[t].host = 1,
              !.task[t].probed = 0, !.task[t].answered = 0]

\* The body of initialize(), entered with the lock held.
initialize_body(s, t) ==
    test_n8n_connectivity(
        [s EXCEPT !.lock_owner = t, !.hist.handshakes = @ + 1, !.hist.expired = FALSE,
                  !.task[t].steps = @ \cup { "resolve" }], t)

\* An initialize() that enters its body without the lock, which C15 excludes.
initialize_unlocked(s, t) ==
    initialize_body([s EXCEPT !.hist.simultaneous = @ /\ ~s.hist.returned], t)

\* initialize() is called: the lock is taken at once when it is free and
\* nobody waits for it, else the task queues for it.
initialize(s, t) ==
    LET s1 == [s EXCEPT !.hist.simultaneous = @ /\ ~s.hist.returned]
    IN  IF s1.lock_owner = NoTask /\ s1.lock_waiters = << >>
        THEN initialize_body(s1, t)
        ELSE [s1 EXCEPT !.lock_waiters = Append(@, t), !.task[t].pc = "lock"]

\* An initialize() that sends its request whatever the resolver returned,
\* which C16 excludes.
connectivity_returns_regardless(s, t, ok, addr) ==
    LET l == s.task[t]
        s1 == [s EXCEPT !.task[t].probe_ret =
                  [ok |-> ok, addr |-> addr, probed |-> l.probed, answered |-> l.answered]]
    IN  IF l.op = "test_n8n_connectivity" THEN op_done(s1, t)
        ELSE send_mcp_request(
                 [s1 EXCEPT !.base_url = addr, !.task[t].steps = @ \cup { "initialize" }],
                 t, "initialize")

\* test_n8n_connectivity returned (ok, addr): to the status command, or into
\* line 251 of initialize.
connectivity_returns(s, t, ok, addr) ==
    LET l == s.task[t]
        s1 == [s EXCEPT !.task[t].probe_ret =
                  [ok |-> ok, addr |-> addr, probed |-> l.probed, answered |-> l.answered]]
    IN  IF l.op = "test_n8n_connectivity" THEN op_done(s1, t)
        ELSE IF ~ok THEN initialize_returns(s1, t, FALSE)
        ELSE send_mcp_request(
                 [s1 EXCEPT !.base_url = addr, !.task[t].steps = @ \cup { "initialize" }],
                 t, "initialize")

\* A resolver that gives up at the first probe that raises, which C7 excludes.
after_probe_abort(s, t, outcome) ==
    LET l == s.task[t]
        ok == ~outcome.raised /\ outcome.status = 200
        s1 == [s EXCEPT !.task[t].probed = @ + 1,
                        !.task[t].answered = IF ok /\ @ = 0 THEN l.host ELSE @]
    IN  IF ok
        THEN connectivity_returns(s1, t, TRUE, build_url(DOCKER_HOSTS[l.host]))
        ELSE IF l.host < Len(DOCKER_HOSTS) /\ ~outcome.raised
        THEN [s1 EXCEPT !.task[t].host = @ + 1]
        ELSE connectivity_returns(s1, t, FALSE, NoAddress)

\* One probe of test_n8n_connectivity ended: 200 returns the candidate, any
\* other status and any exception go on to the next candidate.
after_probe(s, t, outcome) ==
    LET l == s.task[t]
        ok == ~outcome.raised /\ outcome.status = 200
        s1 == [s EXCEPT !.task[t].probed = @ + 1,
                        !.task[t].answered = IF ok /\ @ = 0 THEN l.host ELSE @]
    IN  IF ok
        THEN connectivity_returns(s1, t, TRUE, build_url(DOCKER_HOSTS[l.host]))
        ELSE IF l.host < Len(DOCKER_HOSTS)
        THEN [s1 EXCEPT !.task[t].host = @ + 1]
        ELSE connectivity_returns(s1, t, FALSE, NoAddress)


(***************************************************************************)
(* The actions: a method of the client is called, a suspended task is      *)
(* resumed, or the caller takes what the method returned.  A method        *)
(* returns into its caller without leaving the event loop, so no other     *)
(* task runs between a return and the caller taking the result.            *)
(***************************************************************************)
Quiet == \A u \in Tasks : task[u].pc # "returned"

\* A task calls a method: its locals are fresh.
Called(t, op) ==
    [State EXCEPT !.task[t] = [IdleTask EXCEPT !.op = op, !.saw_init = initialized,
                                               !.saw_expired = hist.expired],
                  !.hist.ops = @ + 1]

CanCall(t) == Quiet /\ task[t].pc = "idle" /\ hist.ops < MaxOps

Resumes(t, pc) == Quiet /\ task[t].pc = pc

\* handle_message, lines 615-616: initialize() is called when the client is
\* not initialized.
CallInitialize(t) ==
    /\ CanCall(t)
    /\ ~initialized
    /\ Becomes(initialize(Called(t, "initialize"), t))

\* call_tool(tool_name, arguments), line 356: initialize() first when the
\* client is not initialized.
CallTool(t) ==
    /\ CanCall(t)
    /\ LET s == Called(t, "call_tool")
       IN  Becomes(IF ~s.initialized THEN initialize(s, t) ELSE call_tool_body(s, t))

\* send_mcp_request(request) called on its own.
CallSend(t) ==
    /\ CanCall(t)
    /\ Becomes(send_mcp_request(Called(t, "send_mcp_request"), t, "ping"))

\* status_command: test_n8n_connectivity() called on its own.
CallConnectivity(t) ==
    /\ CanCall(t)
    /\ Becomes(test_n8n_connectivity(Called(t, "test_n8n_connectivity"), t))

\* The lock was released to the first waiter, which enters initialize().
LockGranted(t) ==
    /\ Resumes(t, "lock")
    /\ lock_owner = t
    /\ Becomes(initialize_body(State, t))

\* The GET of a probe ends; only the hosts of up can answer 200.
ProbeEnds(t, up) ==
    /\ Resumes(t, "probe")
    /\ \E outcome \in ProbeOutcomes :
         /\ outcome.status = 200 => task[t].host \in up
         /\ Becomes(after_probe(State, t, outcome))

\* asyncio.sleep(0.1) of initialize ends: the notification is sent.
PauseEnds(t) ==
    /\ Resumes(t, "pause")
    /\ Becomes(send_mcp_request(
           [State EXCEPT !.task[t].steps = @ \cup { "notifications/initialized" }],
           t, "notifications/initialized"))

\* The POST of an attempt is answered with one of the responses the server
\* has for the method of the request.
PostAnswered(t, served) ==
    /\ Resumes(t, "post")
    /\ \E r \in served[task[t].method] :
         LET v == on_response(r, task[t].attempt)
             s1 == [State EXCEPT !.session_id = adopt_session(@, r)]
             s2 == IF v.expired
                   THEN [s1 EXCEPT !.session_id = NoneStr, !.initialized = FALSE,
                                   !.hist.expired = @ \/ initialized,
                                   !.hist.after_404 = TRUE]
                   ELSE s1
             s3 == [s2 EXCEPT !.task[t].prev = Outcome(r),
                              !.task[t].got_sid = r.sid,
                              !.task[t].failed = IF Outcome(r) \in Transient THEN @ + 1 ELSE @,
                              !.task[t].want = IF Outcome(r) = "200" THEN Decoded(r) ELSE NoneObj]
         IN  Becomes(after_attempt(s3, t, v))

\* The POST of an attempt raises.
PostFails(t) ==
    /\ Resumes(t, "post")
    /\ \E kind \in PostFailures :
         LET v == on_exception(kind, task[t].attempt)
             s1 == [State EXCEPT !.task[t].prev = kind, !.task[t].failed = @ + 1,
                                 !.task[t].got_sid = NoneStr,
                                 !.task[t].want = NoneObj]
         IN  Becomes(after_attempt(s1, t, v))

\* The backoff sleep ends: continue.
BackoffEnds(t) ==
    /\ Resumes(t, "backoff")
    /\ Becomes(next_iteration(State, t))

\* The caller took the result; the task is over.
Returned(t) ==
    /\ task[t].pc = "returned"
    /\ Becomes([State EXCEPT !.task[t] = IdleTask])

(***************************************************************************)
(* Spec: the tasks call initialize() and call_tool() concurrently.  One    *)
(* n8n can answer the probes, at the first candidate; the MCP server       *)
(* answers a method with a JSON response meant for that method or for      *)
(* another, or with an HTTP error, and any attempt may raise.              *)
(***************************************************************************)
Methods == { "initialize", "notifications/initialized", "tools/list", "tools/call", "ping" }

Json(sid, payload_text) == Response(200, sid, "application/json", PlainBody(payload_text))
Status(st) == Response(st, NoneStr, "text/plain", PlainBody(""))

McpErrors == { Status(404), Response(404, "s2", "text/plain", PlainBody("")), Status(503) }

McpServer ==
    [m \in Methods |->
        McpErrors \cup
        CASE m = "initialize" ->
               { Json("s1", JsonTable[1][1]), Json("s2", JsonTable[2][1]),
                 Json(NoneStr, JsonTable[7][1]) }
          [] m = "notifications/initialized" -> { Status(202) }
          [] m = "tools/list" ->
               { Json(NoneStr, JsonTable[i][1]) : i \in { 4, 5, 6, 7, 12 } }
          [] OTHER -> { Json(NoneStr, x) : x \in JsonTexts } \cup { Status(202) }]

Next ==
    \E t \in Tasks :
        \/ CallInitialize(t)
        \/ CallTool(t)
        \/ LockGranted(t)
        \/ ProbeEnds(t, { 1 })
        \/ PauseEnds(t)
        \/ PostAnswered(t, McpServer)
        \/ PostFails(t)
        \/ BackoffEnds(t)
        \/ Returned(t)

Spec == Init /\ [][Next]_vars

(***************************************************************************)
(* SpecLive: Spec with the event loop resuming every task that can go on,  *)
(* and a server with one answer of each kind: a result, a body without     *)
(* result, a 404 and a 503.                                                *)
(***************************************************************************)
LiveServer ==
    [m \in Methods |->
        CASE m = "initialize" ->
               { Json("s1", JsonTable[1][1]), Json(NoneStr, JsonTable[7][1]), Status(503) }
          [] m = "notifications/initialized" -> { Status(202) }
          [] m = "tools/list" -> { Json(NoneStr, JsonTable[4][1]), Status(404) }
          [] OTHER -> { Json(NoneStr, JsonTable[3][1]), Status(503) }]

\* A suspended task is resumed: a probe and a POST end (answered, or with
\* the exception their timeout raises), a sleep ends, the lock goes to the
\* first waiter, a return is taken by the caller.
Progress(t) ==
    \/ LockGranted(t)
    \/ ProbeEnds(t, { 1 })
    \/ PauseEnds(t)
    \/ PostAnswered(t, LiveServer)
    \/ PostFails(t)
    \/ BackoffEnds(t)
    \/ Returned(t)

NextLive == \E t \in Tasks : CallInitialize(t) \/ CallTool(t) \/ Progress(t)

SpecLive == Init /\ [][NextLive]_vars /\ \A t \in Tasks : WF_vars(Progress(t))


(***************************************************************************)
(* SpecLeaf: the transport and the resolver on their own.  One caller      *)
(* calls send_mcp_request and test_n8n_connectivity one after another, on  *)
(* a client that is fresh or was initialized before; any candidate may     *)
(* answer the probes, and the server answers with any response.  hist      *)
(* counts from the initial state.                                          *)
(***************************************************************************)
InitReady ==
    /\ base_url = build_url(DOCKER_HOSTS[1])
    /\ available_tools = << ToolA >>
    /\ initialized = TRUE
    /\ server_capabilities = CapA
    /\ session_id \in { NoneStr, "s1" }
    /\ lock_owner = NoTask
    /\ lock_waiters = << >>
    /\ task = [t \in Tasks |-> IdleTask]
    /\ hist = [ops |-> 0, handshakes |-> 0, returned |-> FALSE, simultaneous |-> TRUE,
               expired |-> FALSE, after_404 |-> FALSE, uuids |-> 0]
    /\ msg = NoMessage

AllHosts == DOMAIN DOCKER_HOSTS

AnyServer == [m \in Methods |-> Responses]

NextLeaf ==
    \E t \in { "t1" } :
        \/ CallSend(t)
        \/ CallConnectivity(t)
        \/ ProbeEnds(t, AllHosts)
        \/ PostAnswered(t, AnyServer)
        \/ PostFails(t)
        \/ BackoffEnds(t)
        \/ Returned(t)

SpecLeaf == (Init \/ InitReady) /\ [][NextLeaf]_vars


(***************************************************************************)
(* SpecParse: handle_message from the answer of the language model on.     *)
(* The answer is any text of Answers and the query of either type; the     *)
(* text is parsed, then the tool is called or the text is sent back.       *)
(***************************************************************************)
\* process_with_llm returned llm_response.
InitParse ==
    /\ FreshClient
    /\ \E a \in Answers, q \in QueryTypes :
         msg = [NoMessage EXCEPT !.pc = "llm", !.llm_response = a.text,
                                 !.made = [name |-> a.name, marker |-> a.marker,
                                           written |-> a.written],
                                 !.query_type = q]

\* Line 628: tool_name, arguments = extract_tool_call(llm_response)
ExtractToolCall ==
    /\ msg.pc = "llm"
    /\ msg' = [msg EXCEPT !.pc = "parsed", !.directive = extract_tool_call(msg.llm_response)]
    /\ UNCHANGED client_vars

\* Lines 630-633: call_tool(tool_name, arguments) is called.
DispatchTool ==
    /\ msg.pc = "parsed"
    /\ dispatches(msg.directive.tool_name, msg.query_type)
    /\ msg' = [msg EXCEPT !.pc = "done", !.called = TRUE]
    /\ UNCHANGED client_vars

\* Lines 660-662: the answer is sent back as it is.
ReplyText ==
    /\ msg.pc = "parsed"
    /\ ~dispatches(msg.directive.tool_name, msg.query_type)
    /\ msg' = [msg EXCEPT !.pc = "done"]
    /\ UNCHANGED client_vars

NextParse == ExtractToolCall \/ DispatchTool \/ ReplyText

SpecParse == InitParse /\ [][NextParse]_vars


(***************************************************************************)
(* The properties.                                                         *)
(***************************************************************************)
HandshakeSteps == { "resolve", "initialize", "notifications/initialized", "tools/list" }

HasReturned(t) == task[t].pc = "returned"

\* A send_mcp_request call of task t is between two of its attempts.
InCall(t) == task[t].pc \in { "post", "backoff" }

\* C1: tasks that call initialize() before any initialize() has returned
\* (each saw initialized = false) cause one handshake in all: the body of
\* initialize() is entered once, the later callers take the outcome of the
\* first.
C1_OneHandshake == hist.simultaneous => hist.handshakes <= 1

\* C2: a 404 answer to a send_mcp_request call leaves session_id None and
\* initialized false when the call returns, and once a 404 has ended a Ready
\* session the client stays not initialized until a handshake is begun, so
\* that the next call_tool does the whole handshake (resolve, initialize,
\* notifications/initialized, tools/list) before it sends tools/call.
C2_ExpiryThenHandshake ==
    /\ \A t \in Tasks :
         LET l == task[t]
         IN  /\ (HasReturned(t) /\ l.last.outcome = "404") =>
                  /\ l.last.sid = NoneStr
                  /\ ~l.last.init
                  /\ l.last.ret = NoneObj
             /\ (l.op = "call_tool" /\ l.saw_expired /\ l.method = "tools/call") =>
                  /\ l.steps = HandshakeSteps
                  /\ l.init_ret = "True"
    /\ hist.expired => ~initialized

\* The attempts of the running send_mcp_request call of t that have ended.
Finished(t) ==
    CASE task[t].pc = "post" -> task[t].attempt
      [] task[t].pc = "backoff" -> task[t].attempt + 1
      [] task[t].pc = "returned" -> task[t].last.attempts
      [] OTHER -> 0

\* C3: in one send_mcp_request call, a 200 response with a decodable body
\* that follows only attempts ended by a 5xx response or an exception ends
\* the call, which returns the decoded payload; the sleep after the failed
\* attempt i is 2^(i-1), 3 in all after two of them; three failed attempts
\* return None after 3 slept, with no sleep after the third.
C3_RetryThenPayload ==
    \A t \in Tasks :
        LET l == task[t]
        IN  /\ (l.prev = "200" /\ l.failed = Finished(t) - 1) =>
                 /\ HasReturned(t)
                 /\ l.last.ret = l.last.payload
                 /\ l.last.slept = 2 ^ l.failed - 1
            /\ (l.pc = "backoff" /\ l.failed = Finished(t)) =>
                 /\ l.attempt < 2
                 /\ l.delay = 2 ^ l.attempt
                 /\ l.slept = 2 ^ (l.attempt + 1) - 1
            /\ (l.prev \in Transient /\ l.failed = Finished(t)) =>
                 IF l.failed < 3
                 THEN l.pc \in { "backoff", "post" }
                 ELSE /\ HasReturned(t)
                      /\ l.last.ret = NoneObj
                      /\ l.last.slept = 3
                      /\ l.delay = 0

\* C4: a response with status 202, 400 or any status other than 200, 404
\* and 5xx ends the call at that attempt, with no sleep and no further
\* attempt: 202 returns {status: accepted}, the others return None; such a
\* response to the first attempt leaves the call with one attempt.
C4_Permanent ==
    \A t \in Tasks :
        LET l == task[t]
        IN  l.prev \in { "202", "400", "other" } =>
              /\ HasReturned(t)
              /\ l.delay = 0
              /\ l.last.outcome = l.prev
              /\ l.last.attempts = l.attempt + 1
              /\ l.last.ret = IF l.prev = "202" THEN Accepted ELSE NoneObj
              /\ l.attempt = 0 => (l.last.attempts = 1 /\ l.last.slept = 0)

C4_Witness ==
    \E t \in Tasks :
        /\ HasReturned(t)
        /\ task[t].last.outcome = "400"
        /\ task[t].last.attempts = 1
        /\ task[t].last.ret = NoneObj

\* C5: a 200 response whose body cannot be decoded ends the call: None is
\* returned and no further attempt is made.
C5_UndecodableEnds ==
    \A t \in Tasks :
        LET l == task[t]
        IN  l.prev = "200-undecodable" =>
              /\ HasReturned(t)
              /\ l.last.ret = NoneObj
              /\ l.last.attempts = l.attempt + 1

\* C6: a send_mcp_request call makes at most 3 attempts and then returns
\* None, the 202 acknowledgement or the payload decoded from its last
\* response, whatever the attempts ended with (an exception included); with
\* base_url not set it makes no attempt and returns None.
C6_Bounded ==
    \A t \in Tasks :
        LET l == task[t]
        IN  /\ InCall(t) => (l.attempt + 1 <= 3 /\ base_url # NoneStr)
            /\ (HasReturned(t) /\ l.op = "send_mcp_request") =>
                 /\ l.last.method = "ping"
                 /\ l.last.attempts <= 3
                 /\ l.last.ret \in { NoneObj, Accepted, l.last.payload }
                 /\ base_url = NoneStr => (l.last.attempts = 0 /\ l.last.ret = NoneObj)
                 /\ base_url # NoneStr => l.last.attempts >= 1

C6_Witness ==
    \E t \in Tasks :
        /\ HasReturned(t)
        /\ task[t].op = "send_mcp_request"
        /\ task[t].last.attempts = 3
        /\ task[t].last.outcome = "timeout"
        /\ task[t].last.ret = NoneObj

\* C7: test_n8n_connectivity probes the candidates in the order of
\* DOCKER_HOSTS, skips every probe that raises or answers another status
\* than 200, and returns (True, url of the first candidate that answers 200)
\* without probing a later one, or (False, the sentinel) when none answers.
C7_FirstReachable ==
    \A t \in Tasks :
        LET l == task[t]
            p == l.probe_ret
        IN  /\ l.pc = "probe" => (l.answered = 0 /\ l.probed = l.host - 1)
            /\ (HasReturned(t) /\ l.op = "test_n8n_connectivity") =>
                 /\ p.answered # 0 =>
                      /\ p.ok
                      /\ p.addr = build_url(DOCKER_HOSTS[p.answered])
                      /\ p.probed = p.answered
                 /\ p.answered = 0 =>
                      /\ ~p.ok
                      /\ p.addr = NoAddress
                      /\ p.probed = Len(DOCKER_HOSTS)

C7_Witness ==
    \E t \in Tasks :
        /\ HasReturned(t)
        /\ task[t].op = "test_n8n_connectivity"
        /\ task[t].probe_ret.ok
        /\ task[t].probe_ret.answered = 4
        /\ task[t].probe_ret.addr = "http://172.17.0.1:5678"

\* C8: in a handshake, a tools/list response whose result lists no tool
\* makes available_tools the six built-in tools, whatever it was before, and
\* a result that lists tools makes available_tools those tools; initialized
\* is true when the handshake returns.
C8_ToolFallback ==
    \A t \in Tasks :
        LET l == task[t]
            r == l.last.ret
        IN  (/\ HasReturned(t)
             /\ l.op = "initialize"
             /\ l.last.method = "tools/list"
             /\ HasKey(r, "result")
             /\ IsDict(r.result)) =>
                /\ available_tools =
                     IF Get(r.result, "tools", << >>) = << >>
                     THEN PredefinedTools
                     ELSE r.result.tools
                /\ initialized
                /\ l.init_ret = "True"

C8_Witness ==
    \E t \in Tasks :
        /\ HasReturned(t)
        /\ task[t].op = "initialize"
        /\ task[t].last.method = "tools/list"
        /\ task[t].last.ret = PToolsNone
        /\ task[t].last.tools = << ToolA, ToolB >>
        /\ available_tools = PredefinedTools
        /\ initialized

\* The string C9 gives for a value returned by send_mcp_request.
C9_Text(v) ==
    IF v = NoneObj THEN NoResponseText
    ELSE IF HasKey(v, "error") /\ IsDict(v.error)
    THEN ErrorText(IF HasKey(v.error, "code") THEN format_code(v.error.code) ELSE "unknown",
                   Get(v.error, "message", "Unknown error"))
    ELSE IF HasKey(v, "result") /\ ~HasKey(v, "error")
    THEN << json_dumps(v.result) >>
    ELSE UnexpectedText

\* C9: call_tool returns, for the value v its tools/call request returned:
\* the no-response string when v is None, the string built from code and
\* message when v holds an error object (with a result or without), the
\* result as indented JSON when v holds a result and no error, and the
\* unexpected-format string for every other v, the empty object and the 202
\* acknowledgement included.
C9_ResultMapping ==
    \A t \in Tasks :
        LET l == task[t]
        IN  (HasReturned(t) /\ l.op = "call_tool" /\ l.last.method = "tools/call") =>
                l.tool_ret = C9_Text(l.last.ret)

\* C10: call_tool returns a string; it sends tools/call only when initialized
\* was true at its start or its initialize() returned True; when its
\* initialize() returns False it returns the not-initialized string and has
\* sent no tools/call.
C10_StringAndReady ==
    \A t \in Tasks :
        LET l == task[t]
        IN  l.op = "call_tool" =>
              /\ HasReturned(t) =>
                   /\ l.tool_ret # << >>
                   /\ \A i \in DOMAIN l.tool_ret : l.tool_ret[i] \in STRING
              /\ (l.method = "tools/call" \/ l.last.method = "tools/call") =>
                   (l.saw_init \/ l.init_ret = "True")
              /\ l.init_ret = "False" =>
                   /\ HasReturned(t)
                   /\ l.tool_ret = NotInitializedText
                   /\ l.method # "tools/call"
                   /\ l.last.method # "tools/call"

C10_Witness ==
    \E t \in Tasks :
        /\ HasReturned(t)
        /\ task[t].op = "call_tool"
        /\ ~task[t].saw_init
        /\ task[t].init_ret = "False"
        /\ task[t].tool_ret = NotInitializedText

\* The text was parsed.
Parsed == msg.pc \in { "parsed", "done" }

\* The text holds both markers of a directive.
IsDirective(text) == Contains(text, "ACTION:") /\ Contains(text, "call_tool")

\* C11: extract_tool_call returns no tool name and an empty argument map for
\* every text without ACTION: or without call_tool; for a text with both, a
\* TOOL: line and ARGUMENTS: followed by a well-formed JSON object it returns
\* the name of that line and the decoded object.
C11_Directive ==
    Parsed =>
        /\ ~IsDirective(msg.llm_response) => msg.directive = NoDirective
        /\ (/\ IsDirective(msg.llm_response)
            /\ msg.made.name # NoName
            /\ msg.made.marker
            /\ json_loads_args(msg.made.written) # JSONDecodeError) =>
               msg.directive = [tool_name |-> msg.made.name,
                                arguments |-> json_loads_args(msg.made.written)]

\* C12: for a text with ACTION:, call_tool and a TOOL: name whose arguments
\* are malformed (the braces never balance, or the balanced span is no JSON)
\* extract_tool_call returns the tool name with an empty argument map, and
\* handle_message calls the tool for a workflow query as it does with
\* arguments.
C12_MalformedArguments ==
    (/\ Parsed
     /\ IsDirective(msg.llm_response)
     /\ msg.made.name # NoName
     /\ msg.made.marker
     /\ msg.made.written \in MalformedObjects) =>
        /\ msg.directive = [tool_name |-> msg.made.name, arguments |-> EmptyObj]
        /\ msg.pc = "done" => (msg.called <=> msg.query_type = "n8n_workflows")

C12_Witness ==
    /\ msg.pc = "done"
    /\ msg.called
    /\ msg.made.written = << "{", "\"Opts\":", "{", "\"n\":1", "}" >>
    /\ msg.directive = [tool_name |-> << "Send_Email" >>, arguments |-> EmptyObj]

\* An attempt of a tools/call request of task t begins in this step.
SendsToolCall(t) ==
    /\ task'[t].pc = "post"
    /\ task'[t].method = "tools/call"
    /\ \/ task[t].pc # "post"
       \/ task[t].method # "tools/call"
       \/ task[t].attempt # task'[t].attempt

\* C13: once a 404 was answered to any request (also to the
\* notifications/initialized or the tools/list of a handshake) initialized is
\* false and no tools/call request is sent, until an initialize request
\* returned a result.
C13_ExpiredUntilInitialize ==
    /\ [](hist.after_404 => ~initialized)
    /\ [][hist'.after_404 => \A t \in Tasks : ~SendsToolCall(t)]_vars

\* C14: initialized turns true only in a step in which the tools/list
\* request of a handshake returned a result, the initialize request of that
\* handshake having returned a result before (the notification is sent only
\* then); a handshake whose tools/list returned None, null or an error
\* leaves initialized false.
C14_ReadyAfterBoth ==
    [][(~initialized /\ initialized') =>
          \E t \in Tasks :
              /\ task[t].fetched = "none"
              /\ task'[t].fetched = "result"
              /\ "notifications/initialized" \in task'[t].steps]_vars

\* Task t is inside the body of initialize(): resolving, sending one of the
\* three handshake requests, or in the pause before the notification.
InBody(t) ==
    /\ task[t].op \in { "initialize", "call_tool" }
    /\ \/ task[t].pc \in { "probe", "pause" }
       \/ /\ InCall(t)
          /\ task[t].method \in { "initialize", "notifications/initialized", "tools/list" }

\* C15: at most one task is inside the body of initialize() at any time, and
\* it holds the session lock.
C15_OneBody ==
    \A t, u \in Tasks :
        InBody(t) => /\ lock_owner = t
                     /\ InBody(u) => u = t

C15_Witness ==
    \E t, u \in Tasks :
        /\ InBody(t)
        /\ task[t].method = "tools/list"
        /\ task[u].pc = "lock"
        /\ lock_waiters = << u >>

\* C16: in every handshake the initialize request is sent only when the
\* resolver returned an address, the notification only after the initialize
\* request returned a response with a result, the tools/list request only
\* when the send of the notification returns (whatever it returns), and
\* initialized turns true only when the tools/list request returns.
C16_StepOrder ==
    [][\A t \in Tasks :
          LET a == task[t]
              b == task'[t]
              new == b.steps \ a.steps
          IN  /\ "initialize" \in new =>
                    /\ a.pc = "probe"
                    /\ "resolve" \in a.steps
                    /\ b.probe_ret.ok
              /\ "notifications/initialized" \in new =>
                    /\ a.pc = "pause"
                    /\ "initialize" \in a.steps
                    /\ a.last.method = "initialize"
                    /\ init_accepted(a.last.ret)
              /\ "tools/list" \in new =>
                    /\ InCall(t)
                    /\ a.method = "notifications/initialized"
                    /\ "notifications/initialized" \in a.steps
              /\ (~initialized /\ initialized') =>
                    \E u \in Tasks :
                        /\ InCall(u)
                        /\ task[u].method = "tools/list"
                        /\ task[u].steps = HandshakeSteps
                        /\ task'[u].fetched # "none"]_vars

C16_Witness ==
    \E t \in Tasks :
        /\ HasReturned(t)
        /\ task[t].op = "initialize"
        /\ task[t].steps = HandshakeSteps
        /\ task[t].fetched = "result"
        /\ task[t].last.method = "tools/list"
        /\ initialized

\* C17 as stated: after send_mcp_request processed a response that carries
\* the Mcp-Session-Id header, whatever its status (200, 202, 400, 404, 5xx,
\* other), session_id is the value of that header.
C17_HeaderAdopted ==
    \A t \in Tasks :
        task[t].got_sid # NoneStr => session_id = task[t].got_sid

\* C17 amended: after a response of any status but 404 that carries the
\* header session_id is the value of the header, whatever it was before;
\* after a 404 it is None, with or without the header.
C17_HeaderAdoptedBut404 ==
    \A t \in Tasks :
        /\ (task[t].got_sid # NoneStr /\ task[t].prev # "404") =>
              session_id = task[t].got_sid
        /\ (InCall(t) \/ HasReturned(t)) /\ task[t].prev = "404" =>
              session_id = NoneStr

C17_Witness ==
    \E t \in Tasks :
        /\ HasReturned(t)
        /\ task[t].prev = "400"
        /\ task[t].sent_sid = "s1"
        /\ task[t].got_sid = "s2"
        /\ session_id = "s2"

\* C18: when initialize() returns False (the resolver failed, or the
\* initialize request returned None or a response without result),
\* initialized is false at that moment, and when the resolver failed the
\* invocation has sent no request; for every interleaving of the callers.
C18_FailureLeavesUnbound ==
    \A t \in Tasks :
        (HasReturned(t) /\ task[t].init_ret = "False") =>
            /\ ~initialized
            /\ ~task[t].probe_ret.ok => task[t].steps = { "resolve" }

\* C19: server_capabilities is written at most once: once a handshake has
\* recorded the capabilities of the server no later step changes them, a
\* handshake after a session expiry included.
C19_CapabilitiesOnce ==
    [][server_capabilities # EmptyObj => server_capabilities' = server_capabilities]_vars

\* The id of the request of task t changes in this step to that of a new
\* request.
NewRequest(t) ==
    /\ task'[t].request_id # NoId
    /\ task'[t].request_id # task[t].request_id

\* C20: every attempt of an initialize, tools/list or tools/call request
\* carries the id made for that call (so the attempts of one call carry the
\* same id), the id has the prefix of its method, two calls in progress
\* carry different ids and the id of a new call is none made before; every
\* attempt of the notification carries no id.
C20_RequestIds ==
    /\ [](\A t \in Tasks :
            InCall(t) =>
               /\ task[t].post_id = task[t].request_id
               /\ task[t].method = "notifications/initialized" => task[t].post_id = NoId
               /\ IdPrefix(task[t].method) # "" =>
                     /\ task[t].post_id.prefix = IdPrefix(task[t].method)
                     /\ task[t].post_id.uuid \in 1..hist.uuids
                     /\ \A u \in Tasks \ { t } :
                           InCall(u) => task[u].post_id # task[t].post_id)
    /\ [][\A t \in Tasks : NewRequest(t) => task'[t].request_id.uuid > hist.uuids]_vars

C20_Witness ==
    \E t, u \in Tasks :
        /\ task[t].pc = "post"
        /\ task[t].method = "tools/call"
        /\ task[t].attempt = 2
        /\ task[t].post_id = [prefix |-> "tool-", uuid |-> 3]
        /\ task[u].pc = "post"
        /\ task[u].method = "tools/call"
        /\ task[u].post_id = [prefix |-> "tool-", uuid |-> 4]

\* C21: when the text after ARGUMENTS: holds a well-formed JSON object
\* (nested objects and string values holding a brace included), the
\* argument map extract_tool_call returns is that object decoded.
C21_ArgumentsDecoded ==
    (/\ Parsed
     /\ IsDirective(msg.llm_response)
     /\ msg.made.marker
     /\ msg.made.written \in ArgsObjects) =>
        msg.directive.arguments = json_loads_args(msg.made.written)

\* The POST of task t ends in this step (answered, or raising).
PostEnds(t) == task[t].pc = "post" /\ task'[t] # task[t]

\* C22: a 404 invalidates only the session its request was sent under: when
\* the POST of a request sent under another session id than the present one
\* ends while the client is initialized with a session id
\* (no handshake being in progress), the client is still initialized with a
\* session id afterwards.
C22_StaleExpiry ==
    [][\A t \in Tasks :
          (/\ PostEnds(t)
           /\ lock_owner = NoTask
           /\ initialized
           /\ session_id # NoneStr
           /\ task[t].sent_sid # session_id) =>
              /\ initialized'
              /\ session_id' # NoneStr]_vars

\* C23: whenever initialized is true available_tools is not empty and
\* base_url is set, whatever the tools/list request returned.
C23_ReadyHasTools ==
    initialized => /\ available_tools # << >>
                   /\ base_url # NoneStr

\* Task t is inside initialize() or call_tool.
Invoked(t) == task[t].op \in { "initialize", "call_tool" } /\ ~HasReturned(t)

\* C24: when every probe, POST and sleep ends and the lock goes to its
\* waiters in turn, every initialize() and every call_tool invocation
\* returns; and the lock is held only by a task inside the body of
\* initialize() or just granted it, so it is free again on every way out of
\* initialize().
C24_ReturnsAndReleases ==
    /\ \A t \in Tasks : Invoked(t) ~> HasReturned(t)
    /\ [](\A t \in Tasks : lock_owner = t => InBody(t) \/ task[t].pc = "lock")

C24_Witness ==
    \E t, u \in Tasks :
        /\ HasReturned(t)
        /\ task[t].init_ret = "False"
        /\ task[t].steps = { "resolve", "initialize" }
        /\ lock_owner = u
        /\ task[u].pc = "lock"

====
